---- MODULE Spec2Model ----
(***************************************************************************)
(* A model of ADIS.py: the ADISFile object (palette, toroidal grid,        *)
(* time scheduler, key derivation, XOR cipher) and the two handlers of     *)
(* ADISEncryptionApp that encrypt and decrypt with it.                     *)
(*                                                                         *)
(* Python values are represented as follows.                               *)
(*   tuple (r, g, b)      <<r, g, b>>                                      *)
(*   list                 sequence                                         *)
(*   Optional[v]          <<>> for None, <<v>> for a value                 *)
(*   str (key, hex)       sequence of one-character strings                *)
(*   str (text)           sequence of Unicode code points                  *)
(*   bytes                sequence of integers in 0..255                   *)
(*   numpy array R x R x3 function from <<x, y>> (0-based) to <<r, g, b>>  *)
(***************************************************************************)
EXTENDS Integers, Sequences, FiniteSets, TLC

(***************************************************************************)
(* Bounds of the model.                                                    *)
(***************************************************************************)
\* largest color_depth given to the constructor
MaxDepth == 3
\* largest value returned by the tick source (ticks are 1..MaxTick)
MaxTick == 4
\* largest iteration_speed given to the constructor
MaxSpeed == 2
\* cap on iteration_count
MaxIter == 3
\* longest text (in characters) handed to encrypt_string
MaxLen == 2

\* grid resolutions given to the constructor
Resolutions == {1, 2}
\* the RGB triples random.randint(0, 255) x 3 is allowed to produce
PoolColors == {<<0, 0, 0>>, <<255, 255, 255>>, <<0, 255, 15>>}
\* the characters of the texts: 'h' (1 byte in UTF-8), e-acute (2 bytes)
TextChars == {104, 233}

VARIABLES
    resolution,        \* self.resolution
    color_depth,       \* self.color_depth
    iteration_speed,   \* self.iteration_speed
    last_time,         \* self.last_time
    now_time,          \* self.now_time
    iteration_count,   \* self.iteration_count
    color_set,         \* self.color_set
    image_array,       \* self.image_array
    encrypted_string,  \* self.encrypted_string
    key_image,         \* self.key_image
    current_time,      \* the last value get_internet_time returned
    plaintext,         \* the last text handed to encrypt_string
    decrypted,         \* what the decrypt handler shows (<<>> outside it)
    call               \* the method or handler that ran last

vars == <<resolution, color_depth, iteration_speed, last_time, now_time,
          iteration_count, color_set, image_array, encrypted_string,
          key_image, current_time, plaintext, decrypted, call>>

(***************************************************************************)
(* Small helpers.                                                          *)
(***************************************************************************)
Min(a, b) == IF a <= b THEN a ELSE b

Range(s) == {s[i] : i \in 1..Len(s)}

\* Python's a // b for b # 0: the floor of the quotient
FloorDiv(a, b) ==
    IF b > 0
    THEN (IF a >= 0 THEN a \div b ELSE -(((-a) + b - 1) \div b))
    ELSE (IF a <= 0 THEN (-a) \div (-b) ELSE -((a + (-b) - 1) \div (-b)))

\* len(range(n)): the number of times "for _ in range(n)" runs its body
range_lenMutAbs(n) == IF n >= 0 THEN n ELSE -n
range_len(n) == IF n > 0 THEN n ELSE 0

\* s * n for a list s
RECURSIVE list_repeat(_, _)
list_repeat(s, n) == IF n <= 0 THEN <<>> ELSE s \o list_repeat(s, n - 1)

\* a ^ b on non-negative integers
RECURSIVE xor(_, _)
xor(a, b) ==
    IF a = 0 THEN b
    ELSE IF b = 0 THEN a
    ELSE (((a % 2) + (b % 2)) % 2) + 2 * xor(a \div 2, b \div 2)

(***************************************************************************)
(* Color and the palette: generate_random_colors.                          *)
(***************************************************************************)
directions == <<"left", "right", "up", "down">>

Color(rgb, check_direction, activation_colors) ==
    [rgb |-> rgb, check_direction |-> check_direction,
     activation_colors |-> activation_colors]

\* the rgb values the rejection loop can leave with: not in used_colors
unused_rgbMutAny(used_colors) == PoolColors
unused_rgb(used_colors) == PoolColors \ used_colors

\* list(used_colors - {rgb}), as a set: the order is that of random.sample
available_colorsMutOwn(used_colors, rgb) == used_colors
available_colors(used_colors, rgb) == used_colors \ {rgb}

\* random.sample(population, k): the lists of k distinct members
random_sample(population, k) ==
    {s \in [1..k -> population] : \A i, j \in 1..k : i # j => s[i] # s[j]}

\* the activation lists lines 49-54 can build
activation_choices(available) ==
    IF Cardinality(available) >= 1
    THEN UNION {random_sample(available, n) :
                    n \in 1..Min(2, Cardinality(available))}
    ELSE {<<>>}

\* the lists color_set can hold after n rounds of the loop, from empty
RECURSIVE generated_colors(_)
generated_colors(n) ==
    IF n <= 0 THEN {<<>>}
    ELSE UNION {
        LET used_before == {cs[i].rgb : i \in 1..Len(cs)}
        IN UNION {
            LET used_colors == used_before \cup {rgb}
            IN {Append(cs, Color(rgb, directions[d], act)) :
                    d \in 1..Len(directions),
                    act \in activation_choices(available_colors(used_colors, rgb))}
            : rgb \in unused_rgb(used_before)}
        : cs \in generated_colors(n - 1)}

(***************************************************************************)
(* The grid: initialize_image, get_check_position, iterate_once.           *)
(***************************************************************************)
Cells(R) == (0..(R - 1)) \X (0..(R - 1))

\* np.zeros((resolution, resolution, 3), dtype=np.uint8)
zeros(R) == [p \in Cells(R) |-> <<0, 0, 0>>]

\* random.choice(self.color_set).rgb
random_choice_rgbMutAny(cs) == PoolColors
random_choice_rgb(cs) == {cs[i].rgb : i \in 1..Len(cs)}

get_check_positionMutEdge(x, y, direction, R) ==
    IF direction = "right" THEN <<x, Min(y + 1, R - 1)>>
    ELSE IF direction = "left" THEN <<x, (y - 1) % R>>
    ELSE IF direction = "up" THEN <<(x - 1) % R, y>>
    ELSE <<(x + 1) % R, y>>
get_check_position(x, y, direction, R) ==
    IF direction = "right" THEN <<x, (y + 1) % R>>
    ELSE IF direction = "left" THEN <<x, (y - 1) % R>>
    ELSE IF direction = "up" THEN <<(x - 1) % R, y>>
    ELSE <<(x + 1) % R, y>>

\* next((c for c in color_set if c.rgb == current_color), None)
find_color(cs, current_color) ==
    LET hits == {i \in 1..Len(cs) : cs[i].rgb = current_color}
    IN IF hits = {} THEN <<>>
       ELSE <<cs[CHOOSE i \in hits : \A j \in hits : i <= j]>>

\* the two loops of iterate_once from the k-th cell of the scan on
RECURSIVE iterate_scan(_, _, _, _, _)
iterate_scan(old, new_array, cs, R, k) ==
    IF k >= R * R THEN new_array
    ELSE
        LET x == k \div R
            y == k % R
            current_color == old[<<x, y>>]
            color_obj == find_color(cs, current_color)
        IN IF color_obj = <<>> THEN iterate_scan(old, new_array, cs, R, k + 1)
           ELSE
               LET chk == get_check_position(x, y, color_obj[1].check_direction, R)
                   neighbor_color == old[chk]
               IN IF neighbor_color \in Range(color_obj[1].activation_colors)
                  THEN iterate_scan(old,
                           [[new_array EXCEPT ![<<x, y>>] = old[chk]]
                                EXCEPT ![chk] = old[<<x, y>>]],
                           cs, R, k + 1)
                  ELSE iterate_scan(old, new_array, cs, R, k + 1)

\* self.image_array after iterate_once
iterate_once_arrayMutFrom(arr, cs, R) == iterate_scan(arr, arr, cs, R, 1)
iterate_once_array(arr, cs, R) == iterate_scan(arr, arr, cs, R, 0)

(***************************************************************************)
(* Key derivation: generate_key and the key_bytes of lines 156 and 165.    *)
(***************************************************************************)
DigitChars == <<"0", "1", "2", "3", "4", "5", "6", "7", "8", "9">>

\* format(value, '08b')
BitWeights == <<128, 64, 32, 16, 8, 4, 2, 1>>
format_08bMutLsb(value) ==
    [i \in 1..8 |-> IF (value \div BitWeights[9 - i]) % 2 = 1 THEN "1" ELSE "0"]
format_08b(value) ==
    [i \in 1..8 |-> IF (value \div BitWeights[i]) % 2 = 1 THEN "1" ELSE "0"]

\* str(count) inside the f-string, for count >= 0
RECURSIVE str_int(_)
str_int(count) ==
    IF count < 10 THEN <<DigitChars[count + 1]>>
    ELSE Append(str_int(count \div 10), DigitChars[(count % 10) + 1])

\* lines 130-135: the bits of the cells from the k-th cell of the scan on
RECURSIVE binary_from(_, _, _)
binary_from(arr, R, k) ==
    IF k >= R * R THEN <<>>
    ELSE LET value == arr[<<k \div R, k % R>>]
         IN format_08b(value[1]) \o format_08b(value[2])
                \o format_08b(value[3]) \o binary_from(arr, R, k + 1)

\* the last position of the run of equal bits that starts at position i
run_end(binary, i) ==
    CHOOSE j \in i..Len(binary) :
        /\ (j < Len(binary) => binary[j + 1] # binary[i])
        /\ \A m \in i..j : binary[m] = binary[i]

\* lines 139-150: the loop emits f"{current_bit}{count}" once per run of
\* equal bits, when the bit changes and after the last bit; here from the
\* run that starts at (1-based) position i on
RECURSIVE compress_from(_, _)
compress_from(binary, i) ==
    IF i > Len(binary) THEN <<>>
    ELSE LET j == run_end(binary, i)
             current_bit == binary[i]
             count == j - i + 1
         IN <<current_bit>> \o str_int(count) \o compress_from(binary, j + 1)

\* generate_key, for resolution >= 1 (binary[0] exists)
generate_key(arr, R) ==
    LET binary == binary_from(arr, R, 0)
    IN compress_from(binary, 1)

\* int(chunk, 10) for a chunk of decimal digits
RECURSIVE int_10(_)
int_10(chunk) ==
    IF Len(chunk) = 0 THEN 0
    ELSE 10 * int_10(SubSeq(chunk, 1, Len(chunk) - 1))
         + ((CHOOSE d \in 1..10 : DigitChars[d] = chunk[Len(chunk)]) - 1)

\* [int(key[i:i+2], 10) for i in range(0, len(key), 2)]
key_bytes_ofMutWide(key) ==
    [j \in 1..((Len(key) + 2) \div 3) |->
        int_10(SubSeq(key, 3 * j - 2, Min(3 * j, Len(key))))]
key_bytes_of(key) ==
    [j \in 1..((Len(key) + 1) \div 2) |->
        int_10(SubSeq(key, 2 * j - 1, Min(2 * j, Len(key))))]

(***************************************************************************)
(* The cipher: encrypt_string and decrypt_string.                          *)
(***************************************************************************)
HexChars == <<"0", "1", "2", "3", "4", "5", "6", "7", "8", "9",
              "a", "b", "c", "d", "e", "f">>

\* the digits bytes.fromhex reads besides those of HexChars
HexUpper == <<"0", "1", "2", "3", "4", "5", "6", "7", "8", "9",
              "A", "B", "C", "D", "E", "F">>

\* the ASCII whitespace bytes.fromhex skips (the vertical tab left out)
Whitespace == {" ", "\t", "\n", "\r", "\f"}

\* a result: the value a call returns, or the exception it raises
Returned(value) == [status |-> "ok", value |-> value]
Raised(exception) == [status |-> exception, value |-> <<>>]

\* the UTF-8 encoding of one character
encode_char(cp) ==
    IF cp < 128 THEN <<cp>>
    ELSE IF cp < 2048 THEN <<192 + (cp \div 64), 128 + (cp % 64)>>
    ELSE IF cp < 65536
         THEN <<224 + (cp \div 4096), 128 + ((cp \div 64) % 64), 128 + (cp % 64)>>
    ELSE <<240 + (cp \div 262144), 128 + ((cp \div 4096) % 64),
           128 + ((cp \div 64) % 64), 128 + (cp % 64)>>

\* text.encode('utf-8')
RECURSIVE encode_utf8(_)
encode_utf8(text) ==
    IF Len(text) = 0 THEN <<>>
    ELSE encode_char(Head(text)) \o encode_utf8(Tail(text))

IsCont(b) == b >= 128 /\ b <= 191

\* bytes.decode('utf-8') from (1-based) position i on: strict decoding
RECURSIVE decode_from(_, _, _)
decode_from(bs, i, text) ==
    IF i > Len(bs) THEN Returned(text)
    ELSE
        LET b1 == bs[i]
            has(n) == i + n <= Len(bs)
            b2 == bs[i + 1]
            b3 == bs[i + 2]
            b4 == bs[i + 3]
        IN IF b1 < 128 THEN decode_from(bs, i + 1, Append(text, b1))
           ELSE IF b1 >= 194 /\ b1 <= 223
                THEN IF has(1) /\ IsCont(b2)
                     THEN decode_from(bs, i + 2,
                              Append(text, (b1 - 192) * 64 + (b2 - 128)))
                     ELSE Raised("UnicodeDecodeError")
           ELSE IF b1 >= 224 /\ b1 <= 239
                THEN IF /\ has(2)
                        /\ IsCont(b2) /\ IsCont(b3)
                        /\ (b1 = 224 => b2 >= 160)
                        /\ (b1 = 237 => b2 <= 159)
                     THEN decode_from(bs, i + 3,
                              Append(text, (b1 - 224) * 4096 + (b2 - 128) * 64
                                           + (b3 - 128)))
                     ELSE Raised("UnicodeDecodeError")
           ELSE IF b1 >= 240 /\ b1 <= 244
                THEN IF /\ has(3)
                        /\ IsCont(b2) /\ IsCont(b3) /\ IsCont(b4)
                        /\ (b1 = 240 => b2 >= 144)
                        /\ (b1 = 244 => b2 <= 143)
                     THEN decode_from(bs, i + 4,
                              Append(text, (b1 - 240) * 262144 + (b2 - 128) * 4096
                                           + (b3 - 128) * 64 + (b4 - 128)))
                     ELSE Raised("UnicodeDecodeError")
           ELSE Raised("UnicodeDecodeError")

decode_utf8(bs) == decode_from(bs, 1, <<>>)

\* bytes.hex()
RECURSIVE bytes_hex(_)
bytes_hex(bs) ==
    IF Len(bs) = 0 THEN <<>>
    ELSE <<HexChars[(Head(bs) \div 16) + 1], HexChars[(Head(bs) % 16) + 1]>>
         \o bytes_hex(Tail(bs))

IsHex(c) == c \in Range(HexChars) \cup Range(HexUpper)

HexVal(c) == (CHOOSE d \in 1..16 : HexChars[d] = c \/ HexUpper[d] = c) - 1

\* bytes.fromhex from (1-based) position i on: whitespace is skipped before
\* a byte, and a byte is two adjacent hex digits
RECURSIVE fromhex_from(_, _, _)
fromhex_from(s, i, bs) ==
    IF i > Len(s) THEN Returned(bs)
    ELSE IF s[i] \in Whitespace THEN fromhex_from(s, i + 1, bs)
    ELSE IF i + 1 <= Len(s) /\ IsHex(s[i]) /\ IsHex(s[i + 1])
         THEN fromhex_from(s, i + 2,
                  Append(bs, 16 * HexVal(s[i]) + HexVal(s[i + 1])))
         ELSE Raised("ValueError")

\* bytes.fromhex(s)
bytes_fromhexMutOdd(s) ==
    fromhex_from(IF Len(s) % 2 = 1 THEN SubSeq(s, 1, Len(s) - 1) ELSE s,
                 1, <<>>)
bytes_fromhex(s) == fromhex_from(s, 1, <<>>)

\* key_bytes * (len(data) // len(key_bytes) + 1)
cycled_keyMutShort(key_bytes, n) ==
    list_repeat(key_bytes, FloorDiv(n, Len(key_bytes)))
cycled_key(key_bytes, n) ==
    list_repeat(key_bytes, FloorDiv(n, Len(key_bytes)) + 1)

\* bytes(a ^ b for a, b in zip(data, keys)): zip stops at the shorter one
xor_zipMutFirst(data, keys) ==
    [i \in 1..Min(Len(data), Len(keys)) |-> xor(data[i], keys[1])]
xor_zip(data, keys) ==
    [i \in 1..Min(Len(data), Len(keys)) |-> xor(data[i], keys[i])]

\* encrypt_string lines 157-159: the hex string it returns
encrypt_with(key_bytes, text) ==
    LET text_bytes == encode_utf8(text)
        encrypted_bytes ==
            xor_zip(text_bytes, cycled_key(key_bytes, Len(text_bytes)))
    IN bytes_hex(encrypted_bytes)

\* encrypt_string
encrypt_string(arr, R, text) ==
    encrypt_with(key_bytes_of(generate_key(arr, R)), text)

\* decrypt_string lines 166-168: the text it returns or the exception it
\* raises
decrypt_with(key_bytes, encrypted_hex) ==
    LET encrypted_bytes == bytes_fromhex(encrypted_hex)
    IN IF encrypted_bytes.status # "ok" THEN encrypted_bytes
       ELSE decode_utf8(xor_zip(encrypted_bytes.value,
                cycled_key(key_bytes, Len(encrypted_bytes.value))))

\* decrypt_string
decrypt_string(arr, R, encrypted_hex) ==
    decrypt_with(key_bytes_of(generate_key(arr, R)), encrypted_hex)

(***************************************************************************)
(* The time scheduler: update_times and iterate_required.                  *)
(***************************************************************************)
\* <<last_time, now_time>> after update_times read current
update_times_resultMutNow(last, now, speed, current) ==
    IF last = 0 THEN <<current, current>> ELSE <<now, current>>
update_times_result(last, now, speed, current) ==
    IF last = 0 THEN <<current, current + speed>> ELSE <<now, current>>

\* lines 121-122, for iteration_speed # 0
iterations_neededMutDiff(last, now, speed) == now - last
iterations_needed(last, now, speed) == FloorDiv(now - last, speed)

\* the body of the loop of iterate_required run n times
RECURSIVE iterate_times(_, _, _, _)
iterate_times(arr, cs, R, n) ==
    IF n <= 0 THEN arr
    ELSE iterate_times(iterate_once_array(arr, cs, R), cs, R, n - 1)

(***************************************************************************)
(* The state after construction.                                           *)
(***************************************************************************)
InitWith(resolutions, depths, speeds) ==
    /\ resolution \in resolutions
    /\ color_depth \in depths
    /\ iteration_speed \in speeds
    /\ last_time = 0
    /\ now_time = 0
    /\ iteration_count = 0
    /\ color_set = <<>>
    /\ image_array = zeros(resolution)
    /\ encrypted_string = <<>>
    /\ key_image = <<>>
    /\ current_time = 0
    /\ plaintext = <<>>
    /\ decrypted = <<>>
    /\ call = "__init__"

Init == InitWith(Resolutions, 1..MaxDepth, 1..MaxSpeed)

(***************************************************************************)
(* The operations.  create_adis calls generate_random_colors and then      *)
(* initialize_image once, on the new object; the other operations are      *)
(* called on the object these two have set up.                             *)
(***************************************************************************)
\* the calls that raised: create_adis stops at the first of them
Exceptions == {"IndexError", "ZeroDivisionError"}

Ready == call \notin {"__init__", "generate_random_colors"} \cup Exceptions

Called(name) == call' = name

generate_random_colors ==
    /\ call = "__init__"
    /\ \E cs \in generated_colors(color_depth) : color_set' = cs
    /\ Called("generate_random_colors")
    /\ UNCHANGED <<resolution, color_depth, iteration_speed, last_time,
                   now_time, iteration_count, image_array, encrypted_string,
                   key_image, current_time, plaintext>>
    /\ decrypted' = <<>>

initialize_image ==
    /\ call = "generate_random_colors"
    /\ (color_set # <<>> \/ resolution = 0)
    /\ \E arr \in [Cells(resolution) -> random_choice_rgb(color_set)] :
           image_array' = arr
    /\ Called("initialize_image")
    /\ UNCHANGED <<resolution, color_depth, iteration_speed, last_time,
                   now_time, iteration_count, color_set, encrypted_string,
                   key_image, current_time, plaintext>>
    /\ decrypted' = <<>>

\* initialize_image when random.choice is given an empty color_set
initialize_image_raises ==
    /\ call = "generate_random_colors"
    /\ color_set = <<>>
    /\ resolution >= 1
    /\ Called("IndexError")
    /\ UNCHANGED <<resolution, color_depth, iteration_speed, last_time,
                   now_time, iteration_count, color_set, image_array,
                   encrypted_string, key_image, current_time, plaintext,
                   decrypted>>

iterate_onceMutAlias ==
    /\ Ready
    /\ image_array' = iterate_once_array(image_array, color_set, resolution)
    /\ key_image' = IF key_image = <<>> THEN <<>> ELSE <<image_array'>>
    /\ Called("iterate_once")
    /\ UNCHANGED <<resolution, color_depth, iteration_speed, last_time,
                   now_time, iteration_count, color_set, encrypted_string,
                   current_time, plaintext>>
    /\ decrypted' = <<>>
iterate_once ==
    /\ Ready
    /\ image_array' = iterate_once_array(image_array, color_set, resolution)
    /\ Called("iterate_once")
    /\ UNCHANGED <<resolution, color_depth, iteration_speed, last_time,
                   now_time, iteration_count, color_set, encrypted_string,
                   key_image, current_time, plaintext>>
    /\ decrypted' = <<>>

update_times ==
    /\ Ready
    /\ \E current \in 1..MaxTick :
           /\ current_time' = current
           /\ LET times == update_times_result(last_time, now_time,
                                                iteration_speed, current)
              IN /\ last_time' = times[1]
                 /\ now_time' = times[2]
    /\ Called("update_times")
    /\ UNCHANGED <<resolution, color_depth, iteration_speed, iteration_count,
                   color_set, image_array, encrypted_string, key_image,
                   plaintext>>
    /\ decrypted' = <<>>

iterate_requiredMutAdvance ==
    /\ Ready
    /\ iteration_speed # 0
    /\ LET n == range_len(iterations_needed(last_time, now_time, iteration_speed))
       IN /\ iteration_count + n <= MaxIter
          /\ image_array' = iterate_times(image_array, color_set, resolution, n)
          /\ iteration_count' = iteration_count + n
    /\ last_time' = now_time
    /\ Called("iterate_required")
    /\ UNCHANGED <<resolution, color_depth, iteration_speed,
                   now_time, color_set, encrypted_string, key_image,
                   current_time, plaintext>>
    /\ decrypted' = <<>>
iterate_required ==
    /\ Ready
    /\ iteration_speed # 0
    /\ LET n == range_len(iterations_needed(last_time, now_time, iteration_speed))
       IN /\ iteration_count + n <= MaxIter
          /\ image_array' = iterate_times(image_array, color_set, resolution, n)
          /\ iteration_count' = iteration_count + n
    /\ Called("iterate_required")
    /\ UNCHANGED <<resolution, color_depth, iteration_speed, last_time,
                   now_time, color_set, encrypted_string, key_image,
                   current_time, plaintext>>
    /\ decrypted' = <<>>

\* the tick the time source gives first
FirstTick == 1

\* update_times and then iterate_required, as create_adis calls them at
\* lines 225-226, with a time source that never goes backwards
update_and_iterateMutStale ==
    /\ Ready
    /\ iteration_speed # 0
    /\ \E current \in (IF last_time = 0 THEN {FirstTick}
                       ELSE current_time..MaxTick) :
           LET times == IF last_time = 0
                        THEN <<current, current + iteration_speed>>
                        ELSE <<last_time, current>>
               n == range_len(iterations_needed(times[1], times[2],
                                                iteration_speed))
           IN /\ current_time' = current
              /\ last_time' = times[1]
              /\ now_time' = times[2]
              /\ iteration_count + n <= MaxIter
              /\ image_array' = iterate_times(image_array, color_set,
                                              resolution, n)
              /\ iteration_count' = iteration_count + n
    /\ Called("update_and_iterate")
    /\ UNCHANGED <<resolution, color_depth, iteration_speed, color_set,
                   encrypted_string, key_image, plaintext>>
    /\ decrypted' = <<>>
update_and_iterate ==
    /\ Ready
    /\ iteration_speed # 0
    /\ \E current \in (IF last_time = 0 THEN {FirstTick}
                       ELSE current_time..MaxTick) :
           LET times == update_times_result(last_time, now_time,
                                            iteration_speed, current)
               n == range_len(iterations_needed(times[1], times[2],
                                                iteration_speed))
           IN /\ current_time' = current
              /\ last_time' = times[1]
              /\ now_time' = times[2]
              /\ iteration_count + n <= MaxIter
              /\ image_array' = iterate_times(image_array, color_set,
                                              resolution, n)
              /\ iteration_count' = iteration_count + n
    /\ Called("update_and_iterate")
    /\ UNCHANGED <<resolution, color_depth, iteration_speed, color_set,
                   encrypted_string, key_image, plaintext>>
    /\ decrypted' = <<>>

\* iterate_required when line 122 divides by an iteration_speed of 0
iterate_required_raises ==
    /\ Ready
    /\ iteration_speed = 0
    /\ Called("ZeroDivisionError")
    /\ UNCHANGED <<resolution, color_depth, iteration_speed, last_time,
                   now_time, iteration_count, color_set, image_array,
                   encrypted_string, key_image, current_time, plaintext,
                   decrypted>>

\* the texts a user can enter
Texts == UNION {[1..n -> TextChars] : n \in 0..MaxLen}

\* create_adis lines 228-230, and the Encrypt button lines 276-278
encrypt_handlerMutStep ==
    /\ Ready
    /\ \E key_bytes \in {key_bytes_of(generate_key(image_array, resolution))} :
           \E text \in Texts :
               /\ plaintext' = text
               /\ encrypted_string' = <<encrypt_with(key_bytes, text)>>
    /\ image_array' = iterate_once_array(image_array, color_set, resolution)
    /\ key_image' = <<image_array'>>
    /\ Called("encrypt_handler")
    /\ UNCHANGED <<resolution, color_depth, iteration_speed, last_time,
                   now_time, iteration_count, color_set, current_time>>
    /\ decrypted' = <<>>
encrypt_handler ==
    /\ Ready
    /\ \E key_bytes \in {key_bytes_of(generate_key(image_array, resolution))} :
           \E text \in Texts :
               /\ plaintext' = text
               /\ encrypted_string' = <<encrypt_with(key_bytes, text)>>
    /\ key_image' = <<image_array>>
    /\ Called("encrypt_handler")
    /\ UNCHANGED <<resolution, color_depth, iteration_speed, last_time,
                   now_time, iteration_count, color_set, image_array,
                   current_time>>
    /\ decrypted' = <<>>

\* the Decrypt button, lines 284-293
decrypt_handler ==
    /\ Ready
    /\ decrypted' =
           IF encrypted_string = <<>> \/ encrypted_string = << <<>> >>
           THEN <<Raised("No encrypted string found")>>
           ELSE <<decrypt_string(image_array, resolution, encrypted_string[1])>>
    /\ Called("decrypt_handler")
    /\ UNCHANGED <<resolution, color_depth, iteration_speed, last_time,
                   now_time, iteration_count, color_set, image_array,
                   encrypted_string, key_image, current_time, plaintext>>

\* the strings a caller can hand to decrypt_string
HexInputs ==
    {<<>>, <<"6", "d">>, <<"6", "D">>, <<"f", "f">>, <<"6">>,
     <<"6", "d", "6">>, <<"6", "g">>, <<"g", "6">>, <<"6", "d", " ">>,
     <<" ", "6", "d">>, <<"6", " ", "d">>, <<"6", "d", " ", "6", "0">>,
     <<"c", "3", "a", "9">>, <<"c", "3", "2", "8">>}

\* a call of decrypt_string(encrypted_hex), lines 162-168
decrypt_string_call ==
    /\ Ready
    /\ Called("decrypt_string")
    /\ \E key_bytes \in {key_bytes_of(generate_key(image_array, resolution))} :
           \E encrypted_hex \in HexInputs :
               decrypted' = <<decrypt_with(key_bytes, encrypted_hex)>>
    /\ UNCHANGED <<resolution, color_depth, iteration_speed, last_time,
                   now_time, iteration_count, color_set, image_array,
                   encrypted_string, key_image, current_time, plaintext>>

Next ==
    \/ generate_random_colors
    \/ initialize_image
    \/ initialize_image_raises
    \/ iterate_once
    \/ update_times
    \/ iterate_required
    \/ iterate_required_raises
    \/ encrypt_handler
    \/ decrypt_handler
    \/ decrypt_string_call
    \/ update_and_iterate

Spec == Init /\ [][Next]_vars

(***************************************************************************)
(* The palette and the automaton on their own: every palette of up to      *)
(* MaxDepth colors, every grid drawn from it, and any number of steps.     *)
(***************************************************************************)
NextAutomaton ==
    \/ generate_random_colors
    \/ initialize_image
    \/ iterate_once

SpecAutomaton == Init /\ [][NextAutomaton]_vars

(***************************************************************************)
(* The time scheduler driving the automaton, on the palettes of two        *)
(* colors (the smallest that swap).                                        *)
(***************************************************************************)
InitTime == InitWith(Resolutions, {2}, 1..MaxSpeed)

NextTime ==
    \/ generate_random_colors
    \/ initialize_image
    \/ update_times
    \/ iterate_required

SpecTime == InitTime /\ [][NextTime]_vars

(***************************************************************************)
(* The cipher on an evolving grid, on the palettes of two colors.          *)
(***************************************************************************)
InitCipher == InitWith({2}, {2}, {1})

NextCipher ==
    \/ generate_random_colors
    \/ initialize_image
    \/ iterate_once
    \/ encrypt_handler
    \/ decrypt_handler

SpecCipher == InitCipher /\ [][NextCipher]_vars

(***************************************************************************)
(* create_adis on any configuration the entry fields can give, the zero    *)
(* and negative ones included (a negative resolution makes np.zeros raise  *)
(* in the constructor, so no object with one exists).                      *)
(***************************************************************************)
InitConfig == InitWith({0, 1}, {0, 1, 2}, {-1, 0, 1})

NextConfig ==
    \/ generate_random_colors
    \/ initialize_image
    \/ initialize_image_raises
    \/ update_times
    \/ iterate_required
    \/ iterate_required_raises

SpecConfig == InitConfig /\ [][NextConfig]_vars

(***************************************************************************)
(* decrypt_string called with any string, on grids a few steps old.        *)
(***************************************************************************)
NextDecode ==
    \/ generate_random_colors
    \/ initialize_image
    \/ iterate_once
    \/ decrypt_string_call

SpecDecode == InitCipher /\ [][NextDecode]_vars

(***************************************************************************)
(* Key derivation on the grids of both resolutions, fresh and stepped.     *)
(***************************************************************************)
InitKey == InitWith(Resolutions, {2}, {1})

NextKey ==
    \/ generate_random_colors
    \/ initialize_image
    \/ iterate_once

SpecKey == InitKey /\ [][NextKey]_vars

(***************************************************************************)
(* An object as load_adis returns it from a file create_adis saved at tick *)
(* 1: one palette, the grid one step old, the ciphertext of a text and the *)
(* key image captured with it.  Then time passes (update_times and         *)
(* iterate_required), the grid is stepped and texts are encrypted again.   *)
(***************************************************************************)
LoadedColors ==
    <<Color(<<0, 0, 0>>, "left", <<>>),
      Color(<<255, 255, 255>>, "up", << <<0, 0, 0>> >>)>>

InitLoaded ==
    /\ resolution = 2
    /\ color_depth = 2
    /\ iteration_speed = 1
    /\ last_time = 1
    /\ now_time = 2
    /\ iteration_count = 1
    /\ color_set = LoadedColors
    /\ image_array \in
           {iterate_once_array(arr, LoadedColors, 2) :
                arr \in [Cells(2) -> {LoadedColors[i].rgb : i \in 1..2}]}
    /\ plaintext \in Texts
    /\ encrypted_string = <<encrypt_string(image_array, 2, plaintext)>>
    /\ key_image = <<image_array>>
    /\ current_time = 1
    /\ decrypted = <<>>
    /\ call = "load_adis"

NextLoaded ==
    \/ iterate_once
    \/ update_and_iterate
    \/ encrypt_handler

SpecLoaded == InitLoaded /\ [][NextLoaded]_vars

(***************************************************************************)
(* An object as load_adis returns it from any file: two rules that chain   *)
(* (white is activated by green, green by black), cells of all three       *)
(* colors, black having no rule.  The grid is then stepped.                *)
(***************************************************************************)
StepResolutions == {1, 2, 3}

StepColors ==
    {<<Color(<<0, 255, 15>>, d1, << <<0, 0, 0>> >>),
       Color(<<255, 255, 255>>, d2, << <<0, 255, 15>> >>)>> :
         d1 \in Range(directions), d2 \in {"up", "right"}}

InitStep ==
    /\ resolution \in StepResolutions
    /\ color_depth = 2
    /\ iteration_speed = 1
    /\ last_time = 0
    /\ now_time = 0
    /\ iteration_count = 0
    /\ color_set \in StepColors
    /\ image_array \in [Cells(resolution) -> PoolColors]
    /\ encrypted_string = <<>>
    /\ key_image = <<>>
    /\ current_time = 0
    /\ plaintext = <<>>
    /\ decrypted = <<>>
    /\ call = "load_adis"

NextStep == iterate_once

SpecStep == InitStep /\ [][NextStep]_vars

(***************************************************************************)
(* An object driven by update_times / iterate_required pairs only, the     *)
(* ticks starting at FirstTick and never decreasing.                       *)
(***************************************************************************)
NextPairs ==
    \/ generate_random_colors
    \/ initialize_image
    \/ update_and_iterate

SpecPairs == InitTime /\ [][NextPairs]_vars

(***************************************************************************)
(* Properties.                                                             *)
(***************************************************************************)
\* the number of cells of arr that hold color c
ColorCount(arr, c) == Cardinality({p \in DOMAIN arr : arr[p] = c})

SameColors(a, b) ==
    \A c \in {a[p] : p \in DOMAIN a} \cup {b[p] : p \in DOMAIN b} :
        ColorCount(a, c) = ColorCount(b, c)

\* C1: one step (iterate_once) leaves the multiset of cell colors as it
\* was: no occurrence of a color is created or destroyed, also when
\* several activated swaps of the pass touch a common cell.
C1_ColorsConserved ==
    [][call' = "iterate_once" => SameColors(image_array, image_array')]_vars

\* C2: once a text is encrypted and the key imprint captured, decrypting
\* the stored (non-empty) ciphertext gives the text back, whatever number
\* of steps the live grid took in between.
C2_DecryptAfterSteps ==
    (call = "decrypt_handler" /\ encrypted_string # <<>>
        /\ encrypted_string # << <<>> >>)
    => decrypted = <<Returned(plaintext)>>

\* C3: decrypt_string(encrypt_string(t)) = t when the grid is the one the
\* text was encrypted with, for every text, the empty one and those longer
\* than the keystream included; the Decrypt button then shows t.
C3_RoundTrip ==
    (encrypted_string # <<>> /\ key_image = <<image_array>>)
    => /\ decrypt_string(image_array, resolution, encrypted_string[1])
              = Returned(plaintext)
       /\ (call = "decrypt_handler" /\ encrypted_string[1] # <<>>)
              => decrypted = <<Returned(plaintext)>>

\* a text with more bytes than the keystream has elements was encrypted,
\* and the Decrypt button has shown it
C3_Witness ==
    /\ call = "decrypt_handler"
    /\ key_image = <<image_array>>
    /\ Len(encode_utf8(plaintext))
           > Len(key_bytes_of(generate_key(image_array, resolution)))
    /\ \E i \in 1..Len(plaintext) : plaintext[i] > 127
    /\ decrypted = <<Returned(plaintext)>>

\* C4: after initialize_image, and after any number of steps, every cell
\* holds the rgb of some color of the palette.
C4_CellsInPalette ==
    Ready => \A p \in Cells(resolution) :
                 \E i \in 1..Len(color_set) : color_set[i].rgb = image_array[p]

\* a step has run and the grid it left is not yet a fixed point
C4_Witness ==
    /\ call = "iterate_once"
    /\ iterate_once_array(image_array, color_set, resolution) # image_array

\* floor((now_time - last_time) / iteration_speed), for iteration_speed > 0
Pending == (now_time - last_time) \div iteration_speed

\* C5: with pending <= 0, iterate_required runs no step: the grid and
\* iteration_count are unchanged.
C5_NoStepWhenNotDue ==
    [][(call' = "iterate_required" /\ iteration_speed > 0 /\ Pending <= 0)
         => (image_array' = image_array /\ iteration_count' = iteration_count)]_vars

\* iterate_required has run although the tick source went backwards
C5_Witness ==
    /\ call = "iterate_required"
    /\ now_time < last_time
    /\ iteration_count > 0

\* step composed n times
RECURSIVE StepComposed(_, _)
StepComposed(arr, n) ==
    IF n = 0 THEN arr
    ELSE iterate_once_array(StepComposed(arr, n - 1), color_set, resolution)

\* C6: with pending > 0, iterate_required applies the step pending times
\* in sequence and adds pending to iteration_count.
C6_RunsPendingSteps ==
    [][(call' = "iterate_required" /\ Pending > 0)
         => /\ iteration_count' = iteration_count + Pending
            /\ image_array' = StepComposed(image_array, Pending)]_vars

\* iteration_speed 1 and ticks 3 apart: three steps have run, on a grid
\* that is still moving
C6_Witness ==
    /\ call = "iterate_required"
    /\ iteration_speed = 1
    /\ now_time - last_time = 3
    /\ iteration_count = 3
    /\ iterate_once_array(image_array, color_set, resolution) # image_array

\* C7: iterate_required leaves last_time, now_time and iteration_speed
\* alone, so pending is the same after it as before, and each call adds
\* pending (when positive) to iteration_count.
C7_TimesNotAdvanced ==
    [][call' = "iterate_required"
         => /\ last_time' = last_time
            /\ now_time' = now_time
            /\ iteration_speed' = iteration_speed
            /\ Pending' = Pending
            /\ iteration_count' =
                   iteration_count + (IF Pending > 0 THEN Pending ELSE 0)]_vars

\* the times are those the first update_times left (only its first branch
\* leaves last_time = current_time), iteration_count was 0 then, and
\* iterate_required has since run its pending steps twice
C7_Witness ==
    /\ call = "iterate_required"
    /\ last_time = current_time
    /\ now_time = last_time + iteration_speed
    /\ Pending > 0
    /\ iteration_count = 2 * Pending

\* C8: update_times with last_time = 0 sets last_time to the tick read and
\* now_time to last_time + iteration_speed, so that the iterate_required
\* that follows runs exactly one step; otherwise it sets last_time to the
\* old now_time and now_time to the tick read.  The grid, the palette and
\* iteration_count are unchanged.
C8_UpdateTimes ==
    [][/\ call' = "update_times"
          => /\ last_time = 0
                 => /\ last_time' = current_time'
                    /\ now_time' = last_time' + iteration_speed
                    /\ Pending' = 1
             /\ last_time # 0
                 => /\ last_time' = now_time
                    /\ now_time' = current_time'
             /\ UNCHANGED <<image_array, color_set, iteration_count>>
       /\ (call = "update_times" /\ now_time = last_time + iteration_speed
              /\ call' = "iterate_required")
          => iteration_count' = iteration_count + 1]_vars

\* the first update_times and its one step have run, and a later
\* update_times has shifted now_time into last_time
C8_Witness ==
    /\ call = "update_times"
    /\ iteration_count = 1
    /\ now_time = current_time
    /\ last_time # 0
    /\ last_time # current_time

\* C9: the color at (1-based) position i of the palette has activation
\* colors only among the rgb of the colors before it, at most min(2, i - 1)
\* of them and at least one when i > 1, and never its own rgb; a palette
\* of one color has an empty activation list.
C9_ActivationBackward ==
    call # "__init__" =>
        \A i \in 1..Len(color_set) :
            LET activation == color_set[i].activation_colors
            IN /\ Range(activation) \subseteq {color_set[j].rgb : j \in 1..(i - 1)}
               /\ Len(activation) <= Min(2, i - 1)
               /\ Cardinality(Range(activation)) = Len(activation)
               /\ color_set[i].rgb \notin Range(activation)
               /\ (i > 1 => Len(activation) >= 1)
               /\ (i = 1 => activation = <<>>)

\* a palette of three colors whose last color has two activation colors
C9_Witness ==
    /\ call = "generate_random_colors"
    /\ Len(color_set) = 3
    /\ Len(color_set[3].activation_colors) = 2
    /\ Len(color_set[2].activation_colors) = 1

\* C10: generate_random_colors leaves exactly color_depth colors with
\* pairwise distinct rgb, so the lookup of a cell's color by rgb in
\* iterate_once matches at most one of them.
C10_DistinctColors ==
    call # "__init__" =>
        /\ Len(color_set) = color_depth
        /\ \A i, j \in 1..Len(color_set) :
               i # j => color_set[i].rgb # color_set[j].rgb
        /\ \A p \in Cells(resolution) :
               Cardinality({i \in 1..Len(color_set) :
                               color_set[i].rgb = image_array[p]}) <= 1

\* a palette of three colors in use by a step
C10_Witness ==
    /\ call = "iterate_once"
    /\ color_depth = 3
    /\ Len(color_set) = 3

\* C11: an invalid configuration (a non-positive resolution, color_depth
\* or iteration_speed) is rejected with a ConfigError before any palette,
\* grid or iteration is produced from it: no method returns on it.
C11_InvalidConfigRejected ==
    (resolution <= 0 \/ color_depth <= 0 \/ iteration_speed <= 0)
    => call \in {"__init__", "ConfigError"}

\* the hex strings bytes.fromhex reads: groups of two adjacent hex digits,
\* with whitespace before, between and after the groups
WellFormedHex(s) ==
    LET digits == {i \in 1..Len(s) : s[i] \notin Whitespace}
        rank(i) == Cardinality({j \in digits : j <= i})
    IN \A i \in digits : /\ IsHex(s[i])
                         /\ (rank(i) % 2 = 1 => i + 1 \in digits)

\* the bytes decrypt_string recovers from a well-formed hex string
Recovered(keys, s) ==
    LET IsDigit(c) == c \notin Whitespace
        digits == SelectSeq(s, IsDigit)
    IN [j \in 1..(Len(digits) \div 2) |->
           xor(16 * HexVal(digits[2 * j - 1]) + HexVal(digits[2 * j]),
               keys[((j - 1) % Len(keys)) + 1])]

\* one well-formed UTF-8 byte sequence of a code point (Unicode table 3-7)
CodePointBytes(bs) ==
    LET cont(i) == bs[i] >= 128 /\ bs[i] <= 191
    IN \/ Len(bs) = 1 /\ bs[1] <= 127
       \/ Len(bs) = 2 /\ bs[1] \in 194..223 /\ cont(2)
       \/ /\ Len(bs) = 3 /\ cont(3)
          /\ \/ bs[1] = 224 /\ bs[2] \in 160..191
             \/ bs[1] \in 225..236 /\ cont(2)
             \/ bs[1] = 237 /\ bs[2] \in 128..159
             \/ bs[1] \in 238..239 /\ cont(2)
       \/ /\ Len(bs) = 4 /\ cont(3) /\ cont(4)
          /\ \/ bs[1] = 240 /\ bs[2] \in 144..191
             \/ bs[1] \in 241..243 /\ cont(2)
             \/ bs[1] = 244 /\ bs[2] \in 128..143

RECURSIVE ValidUtf8(_)
ValidUtf8(bs) ==
    \/ bs = <<>>
    \/ \E k \in 1..Min(4, Len(bs)) :
           /\ CodePointBytes(SubSeq(bs, 1, k))
           /\ ValidUtf8(SubSeq(bs, k + 1, Len(bs)))

\* a step that is decrypt_string called with s, keys being the key bytes
DecryptsHex(keys, s) ==
    /\ call' = "decrypt_string"
    /\ decrypted' = <<decrypt_with(keys, s)>>

\* C12 as stated: decrypt_string fails with a decode error whenever the hex
\* string has odd length or contains a non-hex character.
C12_MalformedHexFails ==
    [][call' = "decrypt_string" =>
       \A keys \in {key_bytes_of(generate_key(image_array, resolution))} :
       \A s \in HexInputs :
          /\ DecryptsHex(keys, s)
          /\ (Len(s) % 2 = 1 \/ \E i \in 1..Len(s) : ~IsHex(s[i]))
          => decrypted' = <<Raised("ValueError")>>]_vars

\* C12: decrypt_string fails with a decode error, returning no text, when
\* the hex string is not a sequence of two-digit groups separated by
\* whitespace, and with an encoding error when the recovered bytes are not
\* valid UTF-8; in both cases the grid, the key image, the stored
\* ciphertext and the times are unchanged.
C12_DecryptErrors ==
    [][call' = "decrypt_string" =>
       \A keys \in {key_bytes_of(generate_key(image_array, resolution))} :
       \A s \in HexInputs :
          DecryptsHex(keys, s) =>
              /\ ~WellFormedHex(s) => decrypted' = <<Raised("ValueError")>>
              /\ WellFormedHex(s) /\ ~ValidUtf8(Recovered(keys, s))
                     => decrypted' = <<Raised("UnicodeDecodeError")>>
              /\ decrypted'[1].status # "ok" =>
                     /\ decrypted'[1].value = <<>>
                     /\ UNCHANGED <<image_array, key_image, encrypted_string,
                                    last_time, now_time, iteration_count>>]_vars

C12_Witness ==
    /\ call = "decrypt_string"
    /\ decrypted = <<Raised("ValueError")>>
    /\ image_array # zeros(resolution)

\* the number a digit character stands for
DigitOf(c) == (CHOOSE d \in 1..10 : DigitChars[d] = c) - 1

\* C13: for every grid of resolution >= 1 the keystream is non-empty, it
\* has one element per 2-character chunk of the compressed string (the
\* last chunk may have 1 character), every chunk consists of decimal
\* digits, and each element is the chunk's base-10 value, within 0..99.
C13_KeystreamChunks ==
    Ready =>
        LET key == generate_key(image_array, resolution)
            key_bytes == key_bytes_of(key)
        IN /\ Len(key_bytes) >= 1
           /\ Len(key_bytes) = (Len(key) + 1) \div 2
           /\ \A i \in 1..Len(key) : key[i] \in Range(DigitChars)
           /\ \A j \in 1..Len(key_bytes) :
                  /\ key_bytes[j] \in 0..99
                  /\ key_bytes[j] =
                         IF 2 * j <= Len(key)
                         THEN 10 * DigitOf(key[2 * j - 1]) + DigitOf(key[2 * j])
                         ELSE DigitOf(key[2 * j - 1])

C13_Witness ==
    /\ call = "iterate_once"
    /\ resolution = 2
    /\ LET key == generate_key(image_array, resolution)
       IN Len(key) % 2 = 1 /\ Len(key) >= 5

C15_KeyImageIndependent ==
    [][/\ call' \in {"iterate_once", "update_and_iterate"}
          => UNCHANGED <<key_image, encrypted_string>>
       /\ call' = "encrypt_handler"
          => /\ key_image' = <<image_array>>
             /\ encrypted_string' =
                    <<encrypt_string(image_array, resolution, plaintext')>>]_vars

C15_Witness ==
    /\ call = "update_and_iterate"
    /\ key_image # <<>>
    /\ key_image[1] # image_array
    /\ encrypted_string = <<encrypt_string(key_image[1], resolution, plaintext)>>
    /\ plaintext # <<>>

\* the k-th cell of the row-major scan, x outer and y inner
ScanCell(k) == <<k \div resolution, k % resolution>>

\* the cell the k-th cell of the scan checks, if its color has a rule
ScanCheck(k) ==
    LET rule == CHOOSE i \in 1..Len(color_set) :
                    color_set[i].rgb = image_array[ScanCell(k)]
    IN get_check_position(ScanCell(k)[1], ScanCell(k)[2],
                          color_set[rule].check_direction, resolution)

\* the k-th cell of the scan activates its pair: its color has a rule and
\* the color of the cell it checks is one of the rule's activation colors
Activated(k) ==
    /\ \E i \in 1..Len(color_set) : color_set[i].rgb = image_array[ScanCell(k)]
    /\ LET rule == CHOOSE i \in 1..Len(color_set) :
                       color_set[i].rgb = image_array[ScanCell(k)]
       IN image_array[ScanCheck(k)]
              \in Range(color_set[rule].activation_colors)

\* C16: one step is last-write-wins over the pairs activated on the
\* pre-step grid, in row-major order: a cell in no activated pair keeps
\* its color, any other cell gets the pre-step color of the other cell of
\* the last activated pair that holds it; a cell whose color has no rule
\* activates no pair.
C16_LastWriteWins ==
    [][call' = "iterate_once" =>
       \A c \in Cells(resolution) :
          LET pairs == {k \in 0..(resolution * resolution - 1) :
                           Activated(k) /\ c \in {ScanCell(k), ScanCheck(k)}}
          IN IF pairs = {} THEN image_array'[c] = image_array[c]
             ELSE LET last == CHOOSE k \in pairs : \A m \in pairs : m <= k
                      other == IF ScanCheck(last) = c THEN ScanCell(last)
                               ELSE ScanCheck(last)
                  IN image_array'[c] = image_array[other]]_vars

C16_Witness ==
    /\ call = "iterate_once"
    /\ resolution = 3
    /\ \E k1, k2 \in 0..8 :
           /\ k1 < k2 /\ Activated(k1) /\ Activated(k2)
           /\ {ScanCell(k1), ScanCheck(k1)} \cap {ScanCell(k2), ScanCheck(k2)} # {}
    /\ \E c \in Cells(3) : image_array[c] = <<0, 0, 0>>

\* C17: for a resolution R >= 1, every cell and every direction, the cell
\* to check is the neighbor on that side with wrap-around at the edges:
\* right and left move the second coordinate, up and down the first, and
\* both coordinates stay within 0..R-1.
C17_CheckPositionWraps ==
    \A x, y \in 0..(resolution - 1) :
       \A d \in Range(directions) :
          LET chk == get_check_position(x, y, d, resolution)
              next(v) == IF v = resolution - 1 THEN 0 ELSE v + 1
              prev(v) == IF v = 0 THEN resolution - 1 ELSE v - 1
          IN /\ chk \in Cells(resolution)
             /\ chk = IF d = "right" THEN <<x, next(y)>>
                      ELSE IF d = "left" THEN <<x, prev(y)>>
                      ELSE IF d = "up" THEN <<prev(x), y>>
                      ELSE <<next(x), y>>

C17_Witness ==
    /\ call = "iterate_once"
    /\ resolution = 3
    /\ \E k \in 0..8 : Activated(k) /\ ScanCell(k)[1] = 0 /\ ScanCheck(k)[1] = 2

\* C18: encrypt_string gives one ciphertext byte (two hex digits) per byte
\* of the text, byte i being the text's byte i XOR the key byte i modulo
\* the number of key bytes, also for texts longer than the key bytes; and
\* the bytes 0x68 0x69 under the key bytes 5, 9 give 0x6d 0x60.
C18_ByteWiseXor ==
    /\ encrypt_with(<<5, 9>>, <<104, 105>>) = <<"6", "d", "6", "0">>
    /\ call = "encrypt_handler" =>
          LET keys == key_bytes_of(generate_key(image_array, resolution))
              text_bytes == encode_utf8(plaintext)
              hex == encrypted_string[1]
          IN /\ Len(hex) = 2 * Len(text_bytes)
             /\ \A i \in 1..Len(text_bytes) :
                    16 * HexVal(hex[2 * i - 1]) + HexVal(hex[2 * i])
                        = xor(text_bytes[i], keys[((i - 1) % Len(keys)) + 1])

C18_Witness ==
    /\ call = "encrypt_handler"
    /\ LET keys == key_bytes_of(generate_key(image_array, resolution))
       IN /\ Len(encode_utf8(plaintext)) = 2 * Len(keys)
          /\ keys[1] # keys[2]

\* the bit at (1-based) position p of the serialized grid: cells row-major,
\* R, G, B per cell, 8 bits per channel, most significant first
GridBit(p) ==
    LET k == (p - 1) \div 24
        channel == (((p - 1) % 24) \div 8) + 1
        value == image_array[<<k \div resolution, k % resolution>>][channel]
    IN IF (value \div (2 ^ (7 - ((p - 1) % 8)))) % 2 = 1 THEN "1" ELSE "0"

GridBitCount == 3 * 8 * resolution * resolution

\* the positions where a maximal run of equal bits starts
RunStarts == {p \in 1..GridBitCount : p = 1 \/ GridBit(p) # GridBit(p - 1)}

\* the length of the maximal run that starts at p
RunLength(p) ==
    LET later == {q \in RunStarts : q > p}
    IN IF later = {} THEN GridBitCount - p + 1
       ELSE (CHOOSE q \in later : \A r \in later : q <= r) - p

\* a run length (below 1000) in decimal
Decimal(n) ==
    IF n < 10 THEN <<DigitChars[n + 1]>>
    ELSE IF n < 100 THEN <<DigitChars[(n \div 10) + 1], DigitChars[(n % 10) + 1]>>
    ELSE <<DigitChars[(n \div 100) + 1], DigitChars[((n \div 10) % 10) + 1],
           DigitChars[(n % 10) + 1]>>

\* the tokens of the runs that start in starts, in order
RECURSIVE RunTokens(_)
RunTokens(starts) ==
    IF starts = {} THEN <<>>
    ELSE LET p == CHOOSE q \in starts : \A r \in starts : q <= r
         IN <<GridBit(p)>> \o Decimal(RunLength(p)) \o RunTokens(starts \ {p})

RECURSIVE SumRunLengths(_)
SumRunLengths(starts) ==
    IF starts = {} THEN 0
    ELSE LET p == CHOOSE q \in starts : TRUE
         IN RunLength(p) + SumRunLengths(starts \ {p})

\* C19: generate_key serializes the grid row-major to 3 * 8 * R * R bits
\* (R, G, B per cell, most significant bit first) and returns one token
\* per maximal run of equal bits, the bit followed by the run's length in
\* decimal; consecutive runs have different bits and the lengths sum to
\* the number of bits.
C19_RunLengthKey ==
    Ready =>
        /\ Len(binary_from(image_array, resolution, 0)) = GridBitCount
        /\ generate_key(image_array, resolution) = RunTokens(RunStarts)
        /\ \A p \in RunStarts :
               p + RunLength(p) <= GridBitCount
                   => GridBit(p + RunLength(p)) # GridBit(p)
        /\ SumRunLengths(RunStarts) = GridBitCount

C19_Witness ==
    /\ call = "iterate_once"
    /\ resolution = 2
    /\ Cardinality(RunStarts) >= 4
    /\ \E p, q \in RunStarts : RunLength(p) >= 10 /\ RunLength(q) < 10

\* C20: driven by update_times / iterate_required pairs on positive ticks
\* that never decrease, with iteration_speed > 0 and starting from
\* last_time = 0 and iteration_count = 0, iteration_count never decreases
\* and is at most 1 + floor((latest tick - first tick) / iteration_speed).
C20_IterationCountBound ==
    [][call' = "update_and_iterate" =>
          /\ iteration_count' >= iteration_count
          /\ iteration_count' <=
                 1 + FloorDiv(current_time' - FirstTick, iteration_speed)]_vars

\* the bound is met after a pair that ran more than one step
C20_Witness ==
    /\ call = "update_and_iterate"
    /\ last_time = current_time - 2 * iteration_speed
    /\ now_time = current_time
    /\ iteration_count = 3
    /\ iteration_count = 1 + FloorDiv(current_time - FirstTick, iteration_speed)

====
